---- MODULE Spec2Model ----
(***************************************************************************)
(* Veda-Base: the priority message bus (app/agents/message_bus.py) and the *)
(* batch document processors (app/core/document_processor.py and           *)
(* app/core/document/processor.py), modelled as state machines.            *)
(*                                                                         *)
(* All coroutines run on one asyncio event loop: a step of the model is    *)
(* the code a coroutine runs between two suspension points.                *)
(***************************************************************************)
EXTENDS Integers, Sequences, FiniteSets, TLC

(***************************************************************************)
(* Bounds of the model.                                                    *)
(***************************************************************************)
\* number of handle_message calls made on the agent in one behaviour
MaxCalls == 3
\* number of get_batch_status calls in one behaviour
MaxReads == 2
\* number of envelopes send_message accepts in one behaviour
MaxSends == 3
\* largest value of the wall clock read by datetime.now()
MaxTime == 1
\* number of dispatch tasks that exist at the same time
MaxTasks == 2
\* largest number of files in a batch
MaxFiles == 3
\* largest concurrency limit (max_workers, max_concurrent) a processor is built with
MaxWorkers == 2

(***************************************************************************)
(* The bus: agents, priorities, queue items.                               *)
(***************************************************************************)
AgentIds == {"a1", "a2"}
\* agent objects; o1 and o3 are two objects that carry the same agent_id
AgentObjs == {"o1", "o2", "o3"}
agent_id(o) == IF o = "o2" THEN "a2" ELSE "a1"
None == "None"

\* Priority(int, Enum): LOW, MEDIUM, HIGH, CRITICAL
LOW == 1
MEDIUM == 2
HIGH == 3
CRITICAL == 4
Priority == {LOW, MEDIUM, HIGH, CRITICAL}
\* the priorities the senders of the model use
SentPriority == {MEDIUM, HIGH}

TaskIds == 1..MaxTasks

\* MessageType(str, Enum); the model uses two of its six members
MessageType == {"task", "status"}
\* the message ids callers give their messages; "" stands for no id
MessageIds == {"", "m1", "m1-a1"}

VARIABLES
    registered_agents,  \* MessageBus._registered_agents: agent id -> object or None
    message_queue,      \* MessageBus._message_queue: the heap list of the PriorityQueue
    running,            \* MessageBus._running
    processing_task,    \* MessageBus._processing_task: a task id, 0 for None
    tasks,              \* the _process_messages tasks: task id -> [pc, msg, target]
    stopWaiting,        \* task ids that a suspended stop() call is awaiting
    subscriptions,      \* MessageBus._subscriptions: message type -> set of agent ids
    now,                \* the clock datetime.now() reads
    enqueued,           \* history: per envelope put on the queue, in order, its
                        \* message id, the id of the message send_message or
                        \* broadcast_message was given and, for a broadcast,
                        \* that message
    stopSeq,            \* history: the latest envelope that was queued when
                        \* stop() last marked the bus not running, 0 once no
                        \* such envelope is queued any more
    nsent,              \* history: number of envelopes accepted by send_message
    delivered,          \* history: the envelopes handed to a handler
    unregSince,         \* history: queued envelopes whose receiver unregistered since
    lastOutcome,        \* history: how the latest handler invocation ended
    subscribeOutcome,   \* history: how the latest subscribe or unsubscribe call
                        \* ended: "returned" or "ValueError"
    unregAtSend         \* history: the ids of the messages send_message was
                        \* called with while their receiver was not
                        \* registered; a message without an id leaves no entry

busVars == <<registered_agents, subscriptions, message_queue, running,
             processing_task, tasks, stopWaiting, now, nsent, enqueued, stopSeq,
             delivered, unregSince, lastOutcome, subscribeOutcome, unregAtSend>>

CoreProcessor == "app.core.document_processor"
DocProcessor == "app.core.document.processor"
Files == 1..MaxFiles

VARIABLES
    processor,          \* which DocumentProcessor class the batch runs on
    max_workers,        \* max_workers / max_concurrent of the processor
    progress_callback,  \* TRUE when a progress callback is passed (not None)
    batch_status,       \* _batch_statuses[batch_id]: a record, or NoStatus
    local,              \* the local counters of DocProcessor.process_batch
    semaphore,          \* the free permits of the asyncio.Semaphore
    worker,             \* the process_with_semaphore tasks: file -> [pc, outcome]
    coord,              \* where the process_batch coroutine is
    doneQueue,          \* DocProcessor: finished tasks as_completed has not yielded yet
    cancelRequested,    \* history: cancel_batch returned True
    cbRaised,           \* history: a progress/status callback raised
    escaped             \* history: files whose exception reached process_batch

batchVars == <<processor, max_workers, progress_callback, batch_status, local,
               semaphore, worker, coord, doneQueue, cancelRequested, cbRaised,
               escaped>>

VARIABLES
    processing_tasks,   \* ProcessingWebSocketManager.processing_tasks[batch_id], or NoRecord
    connected,          \* TRUE when active_connections[batch_id] holds a socket
    mworker,            \* the process_documents_batch coroutine: [pc, idx, total]
    mcancel,            \* an in-flight cancel_processing call: "idle" or "broadcast"
    cancel_result,      \* history: the status the latest cancel_processing call
                        \* found and the value it returns
    cancelReturned,     \* history: a cancel_processing call has returned True
    lateCalls           \* history: the update_progress and complete_processing
                        \* calls the worker has made since then

mgrVars == <<processing_tasks, connected, mworker, mcancel, cancel_result,
             cancelReturned, lateCalls>>

VARIABLES
    core_agents,         \* core MessageBus.agents: agent id -> object or None
    core_subscriptions,  \* core MessageBus.subscriptions: message type -> set of ids
    core_queues,         \* BaseAgent.message_queue of every agent object
    message_history,     \* core MessageBus.message_history
    core_last            \* history: the latest call on the core bus and how it ended

coreVars == <<core_agents, core_subscriptions, core_queues, message_history,
              core_last>>

VARIABLES
    snapshot,           \* what the latest get_batch_status call handed to its
                        \* caller, with the content it had at the call
    terminalReads,      \* history: the contents get_batch_status returned while
                        \* the batch was terminal
    nreads              \* history: number of get_batch_status calls

readVars == <<snapshot, terminalReads, nreads>>

VARIABLES
    message_handlers,   \* BaseAgent._message_handlers: message type -> handler or None
    invocations,        \* history: the calls of handlers, in order: handler and message
    returns             \* history: the handle_message calls, in order: message
                        \* and returned value

agentVars == <<message_handlers, invocations, returns>>

VARIABLES
    active_processes,   \* DocumentProcessor.active_processes of the agent: the
                        \* process ids it holds a context for
    emissions           \* history: the notifications the agent set out to
                        \* send, in order: kind, requester, priority, how the
                        \* call ended and whether an envelope reached the
                        \* queue of the bus

procVars == <<active_processes, emissions>>

NoMsg == [seq |-> 0, message_id |-> "", message_type |-> None, sender |-> None,
          receiver |-> None, content |-> None, priority |-> 0, timestamp |-> 0]
NoTask == [pc |-> "none", msg |-> NoMsg, target |-> None]

(***************************************************************************)
(* MessageQueueItem.__lt__                                                 *)
(***************************************************************************)
\* a comparison that forgets that higher priorities come first
ItemLtAscending(x, y) ==
    IF x.priority # y.priority
    THEN x.priority < y.priority
    ELSE x.timestamp < y.timestamp

ItemLt(x, y) ==
    IF x.priority # y.priority
    THEN x.priority > y.priority
    ELSE x.timestamp < y.timestamp

(***************************************************************************)
(* asyncio.PriorityQueue keeps its items in a list ordered by heapq.       *)
(* Positions are 0-based as in heapq; the sequence index is position + 1.  *)
(***************************************************************************)
RECURSIVE SiftDown(_, _, _, _)
SiftDown(heap, startpos, pos, newitem) ==
    LET parentpos == (pos - 1) \div 2 IN
    IF pos > startpos /\ ItemLt(newitem, heap[parentpos + 1])
    THEN SiftDown([heap EXCEPT ![pos + 1] = heap[parentpos + 1]],
                  startpos, parentpos, newitem)
    ELSE [heap EXCEPT ![pos + 1] = newitem]

RECURSIVE SiftUpLoop(_, _, _)
SiftUpLoop(heap, pos, newitem) ==
    LET endpos == Len(heap)
        left == 2 * pos + 1
        right == left + 1
        childpos == IF right < endpos /\ ~ItemLt(heap[left + 1], heap[right + 1])
                    THEN right ELSE left
    IN  IF left < endpos
        THEN SiftUpLoop([heap EXCEPT ![pos + 1] = heap[childpos + 1]],
                        childpos, newitem)
        ELSE SiftDown([heap EXCEPT ![pos + 1] = newitem], 0, pos, newitem)

HeapPush(heap, item) == SiftDown(Append(heap, item), 0, Len(heap), item)

\* a get that leaves the item in the queue
HeapPeekRest(heap) == heap

\* the heap after heappop; the popped item is heap[1]
HeapPopRest(heap) ==
    LET lastelt == heap[Len(heap)]
        rest == SubSeq(heap, 1, Len(heap) - 1)
    IN  IF rest = <<>> THEN <<>>
        ELSE SiftUpLoop([rest EXCEPT ![1] = lastelt], 0, lastelt)

(***************************************************************************)
(* MessageBus.__init__                                                     *)
(***************************************************************************)
BusInit ==
    /\ registered_agents = [a \in AgentIds |-> None]
    /\ subscriptions = [ty \in MessageType |-> {}]
    /\ message_queue = <<>>
    /\ running = FALSE
    /\ processing_task = 0
    /\ tasks = [t \in TaskIds |-> NoTask]
    /\ stopWaiting = {}
    /\ now = 0
    /\ nsent = 0
    /\ enqueued = <<>>
    /\ stopSeq = 0
    /\ delivered = {}
    /\ unregSince = {}
    /\ lastOutcome = None
    /\ subscribeOutcome = None
    /\ unregAtSend = {}

(***************************************************************************)
(* MessageBus.start                                                        *)
(***************************************************************************)
\* a task object that has finished and that nothing refers to is gone
Free(t) ==
    \/ tasks[t].pc = "none"
    \/ tasks[t].pc = "exited" /\ t \notin stopWaiting /\ processing_task # t

start ==
    /\ \E t \in TaskIds : Free(t)
    /\ IF running
       THEN UNCHANGED <<running, processing_task, tasks>>
       ELSE LET t == CHOOSE t \in TaskIds :
                        Free(t) /\ \A u \in TaskIds : Free(u) => t <= u
            IN  /\ running' = TRUE
                /\ processing_task' = t
                /\ tasks' = [tasks EXCEPT ![t] =
                                 [pc |-> "check", msg |-> NoMsg, target |-> None]]
    /\ UNCHANGED <<registered_agents, subscriptions, message_queue, stopWaiting,
                   now, nsent, enqueued, stopSeq, delivered, unregSince,
                   lastOutcome,
                   subscribeOutcome, unregAtSend>>
    /\ UNCHANGED <<batchVars, mgrVars, coreVars, readVars, agentVars, procVars>>

(***************************************************************************)
(* MessageBus.stop: up to the await of the processing task, and from it.   *)
(* Awaiting a task that has already finished does not suspend.             *)
(***************************************************************************)
stop ==
    /\ IF ~running
       THEN UNCHANGED <<running, processing_task, stopWaiting, stopSeq>>
       ELSE /\ running' = FALSE
            /\ stopSeq' = IF message_queue = <<>> THEN 0
                           ELSE CHOOSE n \in 1..nsent :
                                    /\ \E i \in DOMAIN message_queue :
                                           message_queue[i].seq = n
                                    /\ \A i \in DOMAIN message_queue :
                                           message_queue[i].seq <= n
            /\ IF processing_task = 0
               THEN UNCHANGED <<processing_task, stopWaiting>>
               ELSE IF tasks[processing_task].pc = "exited"
                    THEN /\ processing_task' = 0
                         /\ UNCHANGED stopWaiting
                    ELSE /\ stopWaiting' = stopWaiting \cup {processing_task}
                         /\ UNCHANGED processing_task
    /\ UNCHANGED <<registered_agents, subscriptions, message_queue, tasks, now,
                   nsent, enqueued, delivered, unregSince, lastOutcome,
                   subscribeOutcome, unregAtSend>>
    /\ UNCHANGED <<batchVars, mgrVars, coreVars, readVars, agentVars, procVars>>

stopReturn(t) ==
    /\ t \in stopWaiting
    /\ tasks[t].pc = "exited"
    /\ stopWaiting' = stopWaiting \ {t}
    /\ processing_task' = 0
    /\ UNCHANGED <<registered_agents, subscriptions, message_queue, running,
                   tasks, now, nsent, enqueued, stopSeq, delivered, unregSince,
                   lastOutcome,
                   subscribeOutcome, unregAtSend>>
    /\ UNCHANGED <<batchVars, mgrVars, coreVars, readVars, agentVars, procVars>>

(***************************************************************************)
(* MessageBus.register_agent / unregister_agent                            *)
(***************************************************************************)
register_agent(o) ==
    /\ IF registered_agents[agent_id(o)] # None
       THEN UNCHANGED registered_agents          \* raises ValueError
       ELSE registered_agents' = [registered_agents EXCEPT ![agent_id(o)] = o]
    /\ UNCHANGED <<subscriptions, message_queue, running, processing_task, tasks,
                   stopWaiting, now, nsent, enqueued, stopSeq, delivered,
                   unregSince, lastOutcome,
                   subscribeOutcome, unregAtSend>>
    /\ UNCHANGED <<batchVars, mgrVars, coreVars, readVars, agentVars, procVars>>

\* a discard that reaches only the first of the subscriber sets
DiscardFromFirst(subs, a) == [subs EXCEPT !["task"] = @ \ {a}]

\* lines 86-88: the id is discarded from the subscriber set of every type
DiscardFromAll(subs, a) == [ty \in MessageType |-> subs[ty] \ {a}]

unregister_agent(o) ==
    /\ IF registered_agents[agent_id(o)] = None
       THEN UNCHANGED <<registered_agents, subscriptions, unregSince>>
       ELSE /\ registered_agents' = [registered_agents EXCEPT ![agent_id(o)] = None]
            /\ subscriptions' = DiscardFromAll(subscriptions, agent_id(o))
            /\ unregSince' = unregSince \cup
                   {message_queue[i].seq : i \in
                        {j \in DOMAIN message_queue :
                             message_queue[j].receiver = agent_id(o)}}
    /\ UNCHANGED <<message_queue, running, processing_task, tasks, stopWaiting,
                   now, nsent, enqueued, stopSeq, delivered, lastOutcome,
                   subscribeOutcome, unregAtSend>>
    /\ UNCHANGED <<batchVars, mgrVars, coreVars, readVars, agentVars, procVars>>

(***************************************************************************)
(* MessageBus.send_message: the receiver must be registered now; the item  *)
(* is stamped with datetime.now(), which may or may not have advanced      *)
(* since the previous read.                                                *)
(***************************************************************************)
\* the values a read of the clock can give now
Clock == {ts \in {now, now + 1} : ts <= MaxTime}

\* AgentMessage, base.py lines 45-55, with the fields the bus reads or copies
AgentMessage(id, type, sender, receiver, content, priority) ==
    [message_id |-> id, message_type |-> type, sender |-> sender,
     receiver |-> receiver, content |-> content, priority |-> priority]

\* lines 114-115: a message without an id is given a fresh uuid4
EnsureId(message, n) ==
    IF message.message_id = ""
    THEN [message EXCEPT !.message_id = "uuid" \o ToString(n)]
    ELSE message

\* a queue item that loses the content of the message
QueueItemWithoutContent(message, n, timestamp) ==
    [seq |-> n, message_id |-> EnsureId(message, n).message_id,
     message_type |-> message.message_type, sender |-> message.sender,
     receiver |-> message.receiver, content |-> None,
     priority |-> message.priority, timestamp |-> timestamp]

\* lines 118-122: the queue item of the n-th accepted message
QueueItem(message, n, timestamp) ==
    [seq |-> n, message_id |-> EnsureId(message, n).message_id,
     message_type |-> message.message_type, sender |-> message.sender,
     receiver |-> message.receiver, content |-> message.content,
     priority |-> message.priority, timestamp |-> timestamp]

\* a test that forgets to look the receiver up in the registry
AnyReceiver(message) == message.receiver \in AgentIds

\* line 109
ValidReceiver(message) ==
    message.receiver \in AgentIds /\ registered_agents[message.receiver] # None

send_message(message, timestamp) ==
    /\ nsent < MaxSends
    /\ IF ~ValidReceiver(message)
       THEN UNCHANGED <<message_queue, nsent, now, enqueued>>   \* logged only
       ELSE /\ nsent' = nsent + 1
            /\ now' = timestamp
            /\ message_queue' = HeapPush(message_queue,
                                         QueueItem(message, nsent + 1, timestamp))
            /\ enqueued' = Append(enqueued,
                   [message_id |-> EnsureId(message, nsent + 1).message_id,
                    broadcast |-> FALSE,
                    origin |-> AgentMessage(message.message_id, None, None, None,
                                            None, 0)])
    /\ unregAtSend' =
           IF message.message_id # ""
              /\ (message.receiver \notin AgentIds
                  \/ registered_agents[message.receiver] = None)
           THEN unregAtSend \cup {message.message_id}
           ELSE unregAtSend
    /\ UNCHANGED <<registered_agents, subscriptions, running, processing_task,
                   tasks, stopWaiting, stopSeq, delivered, unregSince, lastOutcome,
                   subscribeOutcome>>
    /\ UNCHANGED <<batchVars, mgrVars, coreVars, readVars, agentVars, procVars>>

(***************************************************************************)
(* MessageBus.send_message once MaxSends envelopes have been accepted: the *)
(* envelope takes the number n of an envelope that has left the bus (it is *)
(* neither queued nor in a handler), so a sender can go on sending for     *)
(* ever while the histories stay bounded.                                  *)
(***************************************************************************)
HasLeft(n) ==
    /\ \A i \in DOMAIN message_queue : message_queue[i].seq # n
    /\ \A t \in TaskIds : tasks[t].msg.seq # n

send_message_again(message, n, timestamp) ==
    /\ nsent = MaxSends
    /\ HasLeft(n)
    /\ IF ~ValidReceiver(message)
       THEN UNCHANGED <<message_queue, now, delivered>>   \* logged only
       ELSE /\ now' = timestamp
            /\ message_queue' = HeapPush(message_queue,
                                         QueueItem(message, n, timestamp))
            /\ delivered' = delivered \ {n}
    /\ UNCHANGED <<registered_agents, subscriptions, running, processing_task,
                   tasks, stopWaiting, nsent, enqueued, stopSeq, unregSince,
                   lastOutcome, subscribeOutcome, unregAtSend>>
    /\ UNCHANGED <<batchVars, mgrVars, coreVars, readVars, agentVars, procVars>>

(***************************************************************************)
(* MessageBus._process_messages, one task t.                               *)
(*   check : at the while test                                             *)
(*   get   : suspended in queue.get() on an empty queue                    *)
(*   handle: suspended in receiver.handle_message(message)                 *)
(***************************************************************************)
\* line 157: the agent registered under the receiver id now, or None
ReceiverOfAnyAgent(item) ==
    IF registered_agents[item.receiver] # None
    THEN registered_agents[item.receiver]
    ELSE IF \E a \in AgentIds : registered_agents[a] # None
         THEN registered_agents[CHOOSE a \in AgentIds : registered_agents[a] # None]
         ELSE None

ReceiverOf(item) == registered_agents[item.receiver]

\* lines 153-164: pop the least item, resolve the receiver, start the handler
Deliver(t) ==
    LET item == message_queue[1]
        receiver == ReceiverOf(item)
    IN  /\ message_queue' = HeapPopRest(message_queue)
        /\ unregSince' = unregSince \ {item.seq}
        /\ stopSeq' = IF \E i \in DOMAIN message_queue' :
                              message_queue'[i].seq <= stopSeq
                       THEN stopSeq ELSE 0
        /\ IF receiver = None
           THEN /\ tasks' = [tasks EXCEPT ![t] =
                                 [pc |-> "check", msg |-> NoMsg, target |-> None]]
                /\ UNCHANGED delivered
           ELSE /\ tasks' = [tasks EXCEPT ![t] =
                                 [pc |-> "handle", msg |-> item, target |-> receiver]]
                /\ delivered' = delivered \cup {item.seq}

\* the while test; with a queued item, get() returns without suspending
LoopCheck(t) ==
    /\ tasks[t].pc = "check"
    /\ IF ~running
       THEN /\ tasks' = [tasks EXCEPT ![t].pc = "exited"]
            /\ UNCHANGED <<message_queue, delivered, unregSince, stopSeq>>
       ELSE IF message_queue = <<>>
            THEN /\ tasks' = [tasks EXCEPT ![t].pc = "get"]
                 /\ UNCHANGED <<message_queue, delivered, unregSince, stopSeq>>
            ELSE Deliver(t)
    /\ UNCHANGED <<registered_agents, subscriptions, running, processing_task,
                   stopWaiting, now, nsent, enqueued, lastOutcome,
                   subscribeOutcome, unregAtSend>>
    /\ UNCHANGED <<batchVars, mgrVars, coreVars, readVars, agentVars, procVars>>

\* queue.get() resumes once an item is queued
LoopGet(t) ==
    /\ tasks[t].pc = "get"
    /\ message_queue # <<>>
    /\ Deliver(t)
    /\ UNCHANGED <<registered_agents, subscriptions, running, processing_task,
                   stopWaiting, now, nsent, enqueued, lastOutcome,
                   subscribeOutcome, unregAtSend>>
    /\ UNCHANGED <<batchVars, mgrVars, coreVars, readVars, agentVars, procVars>>

\* lines 164-170: the handler returns or raises an Exception; both paths
\* reach task_done() and the next while test
NextPcAfterHandlerBreaks(outcome) == IF outcome = "raise" THEN "exited" ELSE "check"

NextPcAfterHandler(outcome) == "check"

HandlerDone(t, outcome) ==
    /\ tasks[t].pc = "handle"
    /\ tasks' = [tasks EXCEPT ![t] = [pc |-> NextPcAfterHandler(outcome),
                                      msg |-> NoMsg, target |-> None]]
    /\ lastOutcome' = outcome
    /\ UNCHANGED <<registered_agents, subscriptions, message_queue, running,
                   processing_task, stopWaiting, now, nsent, enqueued, stopSeq,
                   delivered, unregSince, subscribeOutcome, unregAtSend>>
    /\ UNCHANGED <<batchVars, mgrVars, coreVars, readVars, agentVars, procVars>>

(***************************************************************************)
(* MessageBus.subscribe / unsubscribe, for a list of message types.        *)
(***************************************************************************)
subscribe(a, message_types) ==
    /\ IF registered_agents[a] = None
       THEN /\ UNCHANGED subscriptions
            /\ subscribeOutcome' = "ValueError"
       ELSE /\ subscriptions' = [ty \in MessageType |->
                                    IF ty \in message_types
                                    THEN subscriptions[ty] \cup {a}
                                    ELSE subscriptions[ty]]
            /\ subscribeOutcome' = "returned"
    /\ UNCHANGED <<registered_agents, message_queue, running, processing_task,
                   tasks, stopWaiting, now, nsent, enqueued, stopSeq, delivered,
                   unregSince, lastOutcome, unregAtSend>>
    /\ UNCHANGED <<batchVars, mgrVars, coreVars, readVars, agentVars, procVars>>

unsubscribe(a, message_types) ==
    /\ subscriptions' = [ty \in MessageType |->
                             IF ty \in message_types
                             THEN subscriptions[ty] \ {a}
                             ELSE subscriptions[ty]]
    /\ subscribeOutcome' = "returned"
    /\ UNCHANGED <<registered_agents, message_queue, running, processing_task,
                   tasks, stopWaiting, now, nsent, enqueued, stopSeq, delivered,
                   unregSince, lastOutcome, unregAtSend>>
    /\ UNCHANGED <<batchVars, mgrVars, coreVars, readVars, agentVars, procVars>>

(***************************************************************************)
(* MessageBus.broadcast_message: one send_message per member of the        *)
(* subscriber set, in the order the set iterates, each reading the clock.  *)
(***************************************************************************)
\* lines 136-144: the copy made for one subscriber
BroadcastCopy(message, subscriber_id) ==
    AgentMessage(message.message_id \o "-" \o subscriber_id, message.message_type,
                 message.sender, subscriber_id, message.content, message.priority)

\* the orders in which the members of a set can be iterated
Orders(S) ==
    {order \in [1..Cardinality(S) -> S] :
         \A i, j \in DOMAIN order : i # j => order[i] # order[j]}

\* the clock readings of n consecutive calls of datetime.now()
Stamps(n) ==
    {stamps \in [1..n -> now..MaxTime] :
         \A i \in 1..n : stamps[i] <= (IF i = 1 THEN now ELSE stamps[i - 1]) + 1
                          /\ stamps[i] >= (IF i = 1 THEN now ELSE stamps[i - 1])}

\* the queue after the copies for order[1..k] have been sent
RECURSIVE SendCopies(_, _, _, _)
SendCopies(message, order, stamps, k) ==
    IF k = 0 THEN message_queue
    ELSE HeapPush(SendCopies(message, order, stamps, k - 1),
                  QueueItem(BroadcastCopy(message, order[k]), nsent + k, stamps[k]))

broadcast_message(message, order, stamps) ==
    LET n == Len(order) IN
    /\ nsent + n <= MaxSends
    /\ order \in Orders(subscriptions[message.message_type])
    /\ stamps \in Stamps(n)
    /\ IF n = 0
       THEN UNCHANGED <<message_queue, nsent, now, enqueued>>
       ELSE /\ message_queue' = SendCopies(message, order, stamps, n)
            /\ nsent' = nsent + n
            /\ now' = stamps[n]
            /\ enqueued' = enqueued \o
                   [k \in 1..n |->
                       [message_id |-> BroadcastCopy(message, order[k]).message_id,
                        broadcast |-> TRUE, origin |-> message]]
    /\ UNCHANGED <<registered_agents, subscriptions, running, processing_task,
                   tasks, stopWaiting, stopSeq, delivered, unregSince, lastOutcome,
                   subscribeOutcome, unregAtSend>>
    /\ UNCHANGED <<batchVars, mgrVars, coreVars, readVars, agentVars, procVars>>

\* a message sent without an id, by a1
DirectMessage(receiver, priority) ==
    AgentMessage("", "task", "a1", receiver, "c1", priority)

\* the bus with one owner that calls start() and stop() one after the other
BusNext ==
    \/ stopWaiting = {} /\ start
    \/ stop
    \/ \E t \in TaskIds : stopReturn(t)
    \/ \E o \in AgentObjs : register_agent(o)
    \/ \E o \in AgentObjs : unregister_agent(o)
    \/ \E r \in AgentIds, p \in SentPriority, ts \in Clock :
           send_message(DirectMessage(r, p), ts)
    \/ \E t \in TaskIds : LoopCheck(t)
    \/ \E t \in TaskIds : LoopGet(t)
    \/ \E t \in TaskIds, outcome \in {"return", "raise"} : HandlerDone(t, outcome)

\* the bus with one receiver, a1, and a sender that never has to stop sending
FlowNext ==
    \/ stopWaiting = {} /\ start
    \/ stop
    \/ \E t \in TaskIds : stopReturn(t)
    \/ register_agent("o1")
    \/ unregister_agent("o1")
    \/ \E p \in SentPriority, ts \in Clock : send_message(DirectMessage("a1", p), ts)
    \/ \E n \in 1..MaxSends, p \in SentPriority, ts \in Clock :
           send_message_again(DirectMessage("a1", p), n, ts)
    \/ \E t \in TaskIds : LoopCheck(t)
    \/ \E t \in TaskIds : LoopGet(t)
    \/ \E t \in TaskIds : HandlerDone(t, "return")

\* the bus with start() and stop() called at any time
LifeNext ==
    \/ start
    \/ stop
    \/ \E t \in TaskIds : stopReturn(t)
    \/ \E o \in {"o1", "o2"} : register_agent(o)
    \/ \E o \in {"o1", "o2"} : unregister_agent(o)
    \/ \E r \in AgentIds, ts \in Clock : send_message(DirectMessage(r, MEDIUM), ts)
    \/ \E t \in TaskIds : LoopCheck(t)
    \/ \E t \in TaskIds : LoopGet(t)
    \/ \E t \in TaskIds : HandlerDone(t, "return")

(***************************************************************************)
(* The batch processors.  CoreProcessor is DocumentProcessor of            *)
(* app/core/document_processor.py, which keeps a BatchProcessingStatus     *)
(* record per batch; DocProcessor is DocumentProcessor of                  *)
(* app/core/document/processor.py, which counts in local variables of      *)
(* process_batch.  A behaviour follows one batch of one processor.         *)
(***************************************************************************)
NoStatus == [total_files |-> 0, processed_files |-> 0, success_count |-> 0,
             error_count |-> 0, current_file |-> 0, status |-> "absent",
             errors |-> <<>>]
NoLocal == [total_files |-> 0, processed |-> 0, success_count |-> 0,
            error_count |-> 0]
NoWorker == [pc |-> "none", outcome |-> "none"]

\* DocumentProcessor.__init__ of either class
BatchInitWith(p, k) ==
    /\ processor = p
    /\ max_workers = k
    /\ progress_callback = FALSE
    /\ batch_status = NoStatus
    /\ local = NoLocal
    /\ semaphore = k
    /\ worker = [f \in Files |-> NoWorker]
    /\ coord = "idle"
    /\ doneQueue = <<>>
    /\ cancelRequested = FALSE
    /\ cbRaised = FALSE
    /\ escaped = {}

\* the files of the batch in hand
Batch == {f \in Files : worker[f].pc # "none"}
\* the pcs at which a task holds a permit of the semaphore
HoldingPcs == {"cb_start", "extract", "cb_success", "cb_error"}
Holders == {f \in Files : worker[f].pc \in HoldingPcs}

(***************************************************************************)
(* `async with semaphore`: a permit is taken when one is free; the tasks   *)
(* are started, and the waiters woken, in the order of the file list.      *)
(***************************************************************************)
CanAcquireUnbounded(f) ==
    /\ worker[f].pc = "waiting"
    /\ \A g \in Files : g < f => worker[g].pc # "waiting"

CanAcquire(f) ==
    /\ worker[f].pc = "waiting"
    /\ semaphore > 0
    /\ \A g \in Files : g < f => worker[g].pc # "waiting"

(***************************************************************************)
(* CoreProcessor.process_batch, lines 503-529: the status record is made   *)
(* and set to 'processing', one task per file is created, and gather is    *)
(* awaited.  gather() of no tasks does not suspend: the batch is set       *)
(* 'completed' at once.  The finally clause awaits cleanup(), which        *)
(* removes from _temp_dirs while iterating over it and so ends the call    *)
(* with a RuntimeError after the status has been written.                  *)
(***************************************************************************)
\* a gather that suspends also when it is given no task
EmptyGatherWaits(n) == FALSE

\* line 529: gather() of no tasks is done when it is awaited
EmptyGatherReturns(n) == n = 0

CoreProcessBatch(n, cb) ==
    /\ processor = CoreProcessor
    /\ coord = "idle"
    /\ progress_callback' = cb
    /\ semaphore' = max_workers
    /\ worker' = [f \in Files |-> IF f <= n
                                  THEN [pc |-> "waiting", outcome |-> "none"]
                                  ELSE NoWorker]
    /\ batch_status' = [NoStatus EXCEPT !.total_files = n,
                           !.status = IF EmptyGatherReturns(n) THEN "completed"
                                      ELSE "processing"]
    /\ coord' = IF EmptyGatherReturns(n) THEN "raised" ELSE "gather"
    /\ UNCHANGED <<processor, max_workers, local, doneQueue, cancelRequested,
                   cbRaised, escaped>>
    /\ UNCHANGED <<busVars, mgrVars, coreVars, readVars, agentVars, procVars>>

(***************************************************************************)
(* CoreProcessor._process_batch_file inside process_with_semaphore.        *)
(***************************************************************************)
\* lines 574-581: the except clause counts the file as processed and failed
CountError(st, f) ==
    [st EXCEPT !.processed_files = @ + 1,
               !.error_count = @ + 1,
               !.errors = Append(@, f)]

\* lines 567-568
CountSuccess(st) ==
    [st EXCEPT !.processed_files = @ + 1,
               !.success_count = @ + 1]

\* a task end that keeps the permit
CoreEndKeepsPermit(f, pc, outcome) ==
    /\ worker' = [worker EXCEPT ![f] = [pc |-> pc, outcome |-> outcome]]
    /\ UNCHANGED semaphore

\* the task ends: the permit is released
CoreEnd(f, pc, outcome) ==
    /\ worker' = [worker EXCEPT ![f] = [pc |-> pc, outcome |-> outcome]]
    /\ semaphore' = semaphore + 1

\* lines 521, 559-561: permit taken, current_file set, first callback awaited
CoreStartFile(f) ==
    /\ processor = CoreProcessor
    /\ CanAcquire(f)
    /\ semaphore' = semaphore - 1
    /\ batch_status' = [batch_status EXCEPT !.current_file = f]
    /\ worker' = [worker EXCEPT ![f].pc =
                      IF progress_callback THEN "cb_start" ELSE "extract"]
    /\ UNCHANGED <<processor, max_workers, progress_callback, local, coord,
                   doneQueue, cancelRequested, cbRaised, escaped>>
    /\ UNCHANGED <<busVars, mgrVars, coreVars, readVars, agentVars, procVars>>

\* line 564: process_document returns or raises
CoreExtract(f, outcome) ==
    /\ processor = CoreProcessor
    /\ worker[f].pc = "extract"
    /\ IF outcome = "ok"
       THEN /\ batch_status' = CountSuccess(batch_status)
            /\ IF progress_callback
               THEN /\ worker' = [worker EXCEPT ![f] =
                                      [pc |-> "cb_success", outcome |-> "ok"]]
                    /\ UNCHANGED semaphore
               ELSE CoreEnd(f, "done", "ok")
       ELSE /\ batch_status' = CountError(batch_status, f)
            /\ IF progress_callback
               THEN /\ worker' = [worker EXCEPT ![f] =
                                      [pc |-> "cb_error", outcome |-> "fail"]]
                    /\ UNCHANGED semaphore
               ELSE CoreEnd(f, "raised", "fail")
    /\ UNCHANGED <<processor, max_workers, progress_callback, local, coord,
                   doneQueue, cancelRequested, cbRaised, escaped>>
    /\ UNCHANGED <<busVars, mgrVars, coreVars, readVars, agentVars, procVars>>

\* lines 561, 570, 583: an awaited progress callback returns or raises; a
\* raise inside the try block (lines 557-572) enters the except clause
CoreCallback(f, result) ==
    /\ processor = CoreProcessor
    /\ worker[f].pc \in {"cb_start", "cb_success", "cb_error"}
    /\ cbRaised' = (cbRaised \/ result = "raise")
    /\ IF worker[f].pc = "cb_error"
       THEN /\ CoreEnd(f, "raised", worker[f].outcome)
            /\ UNCHANGED batch_status
       ELSE IF result = "raise"
            THEN /\ batch_status' = CountError(batch_status, f)
                 /\ worker' = [worker EXCEPT ![f].pc = "cb_error"]
                 /\ UNCHANGED semaphore
            ELSE IF worker[f].pc = "cb_start"
                 THEN /\ worker' = [worker EXCEPT ![f].pc = "extract"]
                      /\ UNCHANGED <<batch_status, semaphore>>
                 ELSE /\ CoreEnd(f, "done", worker[f].outcome)
                      /\ UNCHANGED batch_status
    /\ UNCHANGED <<processor, max_workers, progress_callback, local, coord,
                   doneQueue, cancelRequested, escaped>>
    /\ UNCHANGED <<busVars, mgrVars, coreVars, readVars, agentVars, procVars>>

(***************************************************************************)
(* CoreProcessor.process_batch, lines 529-548: gather returns when every   *)
(* task has returned, and raises the first exception of a task as soon as  *)
(* that task has ended, leaving the other tasks running.                   *)
(***************************************************************************)
CoreGatherReturns ==
    /\ processor = CoreProcessor
    /\ coord = "gather"
    /\ \A f \in Batch : worker[f].pc = "done"
    /\ batch_status' = [batch_status EXCEPT !.status = "completed"]
    /\ coord' = "raised"
    /\ UNCHANGED <<processor, max_workers, progress_callback, local, semaphore,
                   worker, doneQueue, cancelRequested, cbRaised, escaped>>
    /\ UNCHANGED <<busVars, mgrVars, coreVars, readVars, agentVars, procVars>>

CoreGatherRaises(f) ==
    /\ processor = CoreProcessor
    /\ coord = "gather"
    /\ worker[f].pc = "raised"
    /\ batch_status' = [batch_status EXCEPT !.status = "error",
                                            !.errors = Append(@, "batch")]
    /\ escaped' = escaped \cup {f}
    /\ coord' = "raised"
    /\ UNCHANGED <<processor, max_workers, progress_callback, local, semaphore,
                   worker, doneQueue, cancelRequested, cbRaised>>
    /\ UNCHANGED <<busVars, mgrVars, coreVars, readVars, agentVars, procVars>>

\* CoreProcessor.cancel_batch, lines 598-609
cancel_batch ==
    /\ processor = CoreProcessor
    /\ IF batch_status.status = "processing"
       THEN /\ batch_status' = [batch_status EXCEPT !.status = "cancelled"]
            /\ cancelRequested' = TRUE
       ELSE UNCHANGED <<batch_status, cancelRequested>>
    /\ UNCHANGED <<processor, max_workers, progress_callback, local, semaphore,
                   worker, coord, doneQueue, cbRaised, escaped>>
    /\ UNCHANGED <<busVars, mgrVars, coreVars, readVars, agentVars, procVars>>

(***************************************************************************)
(* DocProcessor.process_batch and process_single_file.  The result cache   *)
(* around process_single_file is outside the model.                        *)
(***************************************************************************)
\* lines 90-102: counters zeroed, one task per file handed to as_completed
DocProcessBatch(n) ==
    /\ processor = DocProcessor
    /\ coord = "idle"
    /\ local' = [NoLocal EXCEPT !.total_files = n]
    /\ worker' = [f \in Files |-> IF f <= n
                                  THEN [pc |-> "waiting", outcome |-> "none"]
                                  ELSE NoWorker]
    /\ coord' = IF n = 0 THEN "returned" ELSE "await"
    /\ UNCHANGED <<processor, max_workers, progress_callback, batch_status,
                   semaphore, doneQueue, cancelRequested, cbRaised, escaped>>
    /\ UNCHANGED <<busVars, mgrVars, coreVars, readVars, agentVars, procVars>>

\* lines 98-99: permit taken, process_single_file entered
DocStartFile(f) ==
    /\ processor = DocProcessor
    /\ CanAcquire(f)
    /\ semaphore' = semaphore - 1
    /\ worker' = [worker EXCEPT ![f].pc = "extract"]
    /\ UNCHANGED <<processor, max_workers, progress_callback, batch_status,
                   local, coord, doneQueue, cancelRequested, cbRaised, escaped>>
    /\ UNCHANGED <<busVars, mgrVars, coreVars, readVars, agentVars, procVars>>

\* lines 57-81: process_single_file returns a result with success True or,
\* from its except clause, False; the permit is released
DocExtract(f, outcome) ==
    /\ processor = DocProcessor
    /\ worker[f].pc = "extract"
    /\ worker' = [worker EXCEPT ![f] = [pc |-> "done", outcome |-> outcome]]
    /\ semaphore' = semaphore + 1
    /\ doneQueue' = Append(doneQueue, f)
    /\ UNCHANGED <<processor, max_workers, progress_callback, batch_status,
                   local, coord, cancelRequested, cbRaised, escaped>>
    /\ UNCHANGED <<busVars, mgrVars, coreVars, readVars, agentVars, procVars>>

\* lines 103-111: the next finished task is counted, status_callback awaited
DocCount ==
    /\ processor = DocProcessor
    /\ coord = "await"
    /\ doneQueue # <<>>
    /\ local' = [local EXCEPT
                    !.processed = @ + 1,
                    !.success_count =
                        IF worker[Head(doneQueue)].outcome = "ok" THEN @ + 1 ELSE @,
                    !.error_count =
                        IF worker[Head(doneQueue)].outcome = "ok" THEN @ ELSE @ + 1]
    /\ doneQueue' = Tail(doneQueue)
    /\ coord' = "callback"
    /\ UNCHANGED <<processor, max_workers, progress_callback, batch_status,
                   semaphore, worker, cancelRequested, cbRaised, escaped>>
    /\ UNCHANGED <<busVars, mgrVars, coreVars, readVars, agentVars, procVars>>

\* lines 111-133: status_callback returns (next task, or the result is
\* returned) or raises out of process_batch
DocCallback(result) ==
    /\ processor = DocProcessor
    /\ coord = "callback"
    /\ cbRaised' = (cbRaised \/ result = "raise")
    /\ coord' = IF result = "raise" THEN "raised"
                ELSE IF local.processed = local.total_files THEN "returned"
                ELSE "await"
    /\ UNCHANGED <<processor, max_workers, progress_callback, batch_status,
                   local, semaphore, worker, doneQueue, cancelRequested, escaped>>
    /\ UNCHANGED <<busVars, mgrVars, coreVars, readVars, agentVars, procVars>>

(***************************************************************************)
(* CoreProcessor.get_batch_status and the caller that holds its result.    *)
(***************************************************************************)
NoSnapshot == [live |-> FALSE, taken |-> NoStatus]

ReadInit ==
    /\ snapshot = NoSnapshot
    /\ terminalReads = {}
    /\ nreads = 0

\* a getter that hands out a copy of the record
ReturnsCopy(record) == [live |-> FALSE, taken |-> record]

\* line 588: the object stored in _batch_statuses is returned itself
ReturnsStored(record) == [live |-> TRUE, taken |-> record]

\* what the holder of the snapshot reads in it now
SnapshotView == IF snapshot.live THEN batch_status ELSE snapshot.taken

\* get_batch_status, lines 586-588; None for a batch that is not known
get_batch_status ==
    /\ processor = CoreProcessor
    /\ nreads < MaxReads
    /\ nreads' = nreads + 1
    /\ snapshot' = IF batch_status.status = "absent" THEN NoSnapshot
                   ELSE ReturnsStored(batch_status)
    /\ terminalReads' =
           IF batch_status.status \in {"completed", "error", "cancelled"}
           THEN terminalReads \cup {batch_status}
           ELSE terminalReads
    /\ UNCHANGED <<busVars, batchVars, mgrVars, coreVars, agentVars, procVars>>

\* the caller assigns None to current_file of the object it was handed
CallerWrites ==
    /\ snapshot # NoSnapshot
    /\ IF snapshot.live
       THEN /\ batch_status' = [batch_status EXCEPT !.current_file = 0]
            /\ UNCHANGED snapshot
       ELSE /\ snapshot' = [snapshot EXCEPT !.taken.current_file = 0]
            /\ UNCHANGED batch_status
    /\ UNCHANGED <<processor, max_workers, progress_callback, local, semaphore,
                   worker, coord, doneQueue, cancelRequested, cbRaised, escaped>>
    /\ UNCHANGED <<terminalReads, nreads>>
    /\ UNCHANGED <<busVars, mgrVars, coreVars, agentVars, procVars>>

\* one batch of CoreProcessor without a progress callback, and a caller that
\* asks for its status
StatusNext ==
    \/ \E n \in 0..MaxFiles : CoreProcessBatch(n, FALSE)
    \/ \E f \in Files : CoreStartFile(f)
    \/ \E f \in Files, outcome \in {"ok", "fail"} : CoreExtract(f, outcome)
    \/ CoreGatherReturns
    \/ \E f \in Files : CoreGatherRaises(f)
    \/ cancel_batch
    \/ get_batch_status
    \/ CallerWrites

BatchNext ==
    \/ \E n \in 0..MaxFiles, cb \in BOOLEAN : CoreProcessBatch(n, cb)
    \/ \E f \in Files : CoreStartFile(f)
    \/ \E f \in Files, outcome \in {"ok", "fail"} : CoreExtract(f, outcome)
    \/ \E f \in Files, result \in {"return", "raise"} : CoreCallback(f, result)
    \/ CoreGatherReturns
    \/ \E f \in Files : CoreGatherRaises(f)
    \/ cancel_batch
    \/ \E n \in 0..MaxFiles : DocProcessBatch(n)
    \/ \E f \in Files : DocStartFile(f)
    \/ \E f \in Files, outcome \in {"ok", "fail"} : DocExtract(f, outcome)
    \/ DocCount
    \/ \E result \in {"return", "raise"} : DocCallback(result)

(***************************************************************************)
(* ProcessingWebSocketManager (app/api/websocket/processing_manager.py),   *)
(* one instance and one batch id, and the background task                  *)
(* process_documents_batch (app/api/routes/documents.py) that reports to   *)
(* it.  broadcast_to_batch suspends, in send_json, only when a socket is   *)
(* connected for the batch.                                                *)
(***************************************************************************)
NoRecord == [status |-> "absent", total_files |-> 0, processed_files |-> 0,
             errors |-> <<>>]
NoCancel == [pre |-> None, result |-> FALSE]

\* ProcessingWebSocketManager.__init__
MgrInit ==
    /\ processing_tasks = NoRecord
    /\ connected = FALSE
    /\ mworker = [pc |-> "idle", idx |-> 0, total |-> 0]
    /\ mcancel = "idle"
    /\ cancel_result = NoCancel
    /\ cancelReturned = FALSE
    /\ lateCalls = 0

\* connect, lines 18-24
connect ==
    /\ ~connected
    /\ connected' = TRUE
    /\ UNCHANGED <<processing_tasks, mworker, mcancel, cancel_result, cancelReturned, lateCalls>>
    /\ UNCHANGED <<busVars, batchVars, coreVars, readVars, agentVars, procVars>>

\* disconnect, lines 26-32
disconnect ==
    /\ connected
    /\ connected' = FALSE
    /\ UNCHANGED <<processing_tasks, mworker, mcancel, cancel_result, cancelReturned, lateCalls>>
    /\ UNCHANGED <<busVars, batchVars, coreVars, readVars, agentVars, procVars>>

\* the pc after a broadcast_to_batch issued at pc `at`
AfterBroadcast(at, next) == IF connected THEN at ELSE next

\* the pc at which the loop of process_documents_batch goes on after file idx
NextFilePc(idx, total) == IF idx < total THEN "extract" ELSE "complete"

\* process_documents_batch lines 156-157 with start_processing lines 51-69
process_documents_batch(n) ==
    /\ mworker.pc = "idle"
    /\ processing_tasks' =
           IF processing_tasks.status # "absent" THEN processing_tasks
           ELSE [status |-> "processing", total_files |-> n,
                 processed_files |-> 0, errors |-> <<>>]
    /\ mworker' = [pc |-> IF processing_tasks.status # "absent" THEN "extract"
                          ELSE AfterBroadcast("start_broadcast", "extract"),
                   idx |-> 1, total |-> n]
    /\ UNCHANGED <<connected, mcancel, cancel_result, cancelReturned, lateCalls>>
    /\ UNCHANGED <<busVars, batchVars, coreVars, readVars, agentVars, procVars>>

\* update_progress, lines 79-99, called at lines 167 and 175 when
\* process_single_file has returned or raised for file idx
update_progress(outcome) ==
    /\ mworker.pc = "extract"
    /\ IF processing_tasks.status = "absent"
       THEN /\ UNCHANGED processing_tasks
            /\ mworker' = [mworker EXCEPT
                              !.pc = NextFilePc(mworker.idx, mworker.total),
                              !.idx = IF mworker.idx < mworker.total THEN @ + 1 ELSE @]
       ELSE /\ processing_tasks' = [processing_tasks EXCEPT
                   !.processed_files = mworker.idx,
                   !.errors = IF outcome = "fail" THEN Append(@, mworker.idx) ELSE @]
            /\ mworker' =
                   IF connected
                   THEN [mworker EXCEPT !.pc = "progress_broadcast"]
                   ELSE [mworker EXCEPT
                            !.pc = NextFilePc(mworker.idx, mworker.total),
                            !.idx = IF mworker.idx < mworker.total THEN @ + 1 ELSE @]
    /\ lateCalls' = IF cancelReturned THEN lateCalls + 1 ELSE lateCalls
    /\ UNCHANGED <<connected, mcancel, cancel_result, cancelReturned>>
    /\ UNCHANGED <<busVars, batchVars, coreVars, readVars, agentVars, procVars>>

\* complete_processing, lines 103-121, called at line 183
complete_processing ==
    /\ mworker.pc = "complete"
    /\ IF processing_tasks.status = "absent"
       THEN /\ UNCHANGED processing_tasks
            /\ mworker' = [mworker EXCEPT !.pc = "done"]
       ELSE /\ processing_tasks' = [processing_tasks EXCEPT !.status = "completed"]
            /\ mworker' = [mworker EXCEPT
                              !.pc = AfterBroadcast("complete_broadcast", "sleep")]
    /\ lateCalls' = IF cancelReturned THEN lateCalls + 1 ELSE lateCalls
    /\ UNCHANGED <<connected, mcancel, cancel_result, cancelReturned>>
    /\ UNCHANGED <<busVars, batchVars, coreVars, readVars, agentVars, procVars>>

\* a broadcast_to_batch of the worker ends: send_json returned or raised
WorkerBroadcastDone ==
    /\ mworker.pc \in {"start_broadcast", "progress_broadcast", "complete_broadcast"}
    /\ mworker' =
           IF mworker.pc = "start_broadcast" THEN [mworker EXCEPT !.pc = "extract"]
           ELSE IF mworker.pc = "complete_broadcast" THEN [mworker EXCEPT !.pc = "sleep"]
           ELSE [mworker EXCEPT
                    !.pc = NextFilePc(mworker.idx, mworker.total),
                    !.idx = IF mworker.idx < mworker.total THEN @ + 1 ELSE @]
    /\ UNCHANGED <<processing_tasks, connected, mcancel, cancel_result, cancelReturned, lateCalls>>
    /\ UNCHANGED <<busVars, batchVars, coreVars, readVars, agentVars, procVars>>

\* complete_processing, lines 124-126: after the sleep the record is deleted
CompleteCleanup ==
    /\ mworker.pc = "sleep"
    /\ processing_tasks' = NoRecord
    /\ mworker' = [mworker EXCEPT !.pc = "done"]
    /\ UNCHANGED <<connected, mcancel, cancel_result, cancelReturned, lateCalls>>
    /\ UNCHANGED <<busVars, batchVars, coreVars, readVars, agentVars, procVars>>

\* lines 133-134: a found record is marked, whatever its status is
CancelMarks(record) == [record EXCEPT !.status = "cancelled"]

\* a cleanup that leaves the cancelled record in place
CancelKeeps(record) == record

\* lines 145-146: the record of the batch is deleted
CancelDeletes(record) == NoRecord

\* cancel_processing, lines 128-148
cancel_processing ==
    /\ mcancel = "idle"
    /\ IF processing_tasks.status = "absent"
       THEN /\ cancel_result' = [pre |-> "absent", result |-> FALSE]
            /\ UNCHANGED <<processing_tasks, mcancel, cancelReturned, lateCalls>>
       ELSE IF connected
            THEN /\ processing_tasks' = CancelMarks(processing_tasks)
                 /\ mcancel' = "broadcast"
                 /\ cancel_result' = [pre |-> processing_tasks.status, result |-> TRUE]
                 /\ UNCHANGED cancelReturned
            ELSE /\ processing_tasks' = CancelDeletes(CancelMarks(processing_tasks))
                 /\ cancel_result' = [pre |-> processing_tasks.status, result |-> TRUE]
                 /\ cancelReturned' = TRUE
                 /\ UNCHANGED mcancel
    /\ UNCHANGED <<connected, mworker, lateCalls>>
    /\ UNCHANGED <<busVars, batchVars, coreVars, readVars, agentVars, procVars>>

\* cancel_processing, lines 144-148, once its broadcast has ended
CancelCleanup ==
    /\ mcancel = "broadcast"
    /\ processing_tasks' = CancelDeletes(processing_tasks)
    /\ mcancel' = "idle"
    /\ cancelReturned' = TRUE
    /\ UNCHANGED <<connected, mworker, cancel_result, lateCalls>>
    /\ UNCHANGED <<busVars, batchVars, coreVars, readVars, agentVars, procVars>>

\* the route DELETE /cancel/{batch_id}, documents.py lines 99-118: the call
\* is made on a manager constructed for the request, which holds no record
route_cancel_processing ==
    /\ cancel_result' = [pre |-> "absent", result |-> FALSE]
    /\ UNCHANGED <<processing_tasks, connected, mworker, mcancel, cancelReturned, lateCalls>>
    /\ UNCHANGED <<busVars, batchVars, coreVars, readVars, agentVars, procVars>>

\* the None that get_processing_status returns for a batch without a record
NotFound == [status |-> None, files_processed |-> 0, total_files |-> 0,
             errors |-> <<>>]

\* get_processing_status, lines 150-165: a new dict made from the record; the
\* fields computed from the clock are left out
get_processing_status ==
    IF processing_tasks.status = "absent" THEN NotFound
    ELSE [status |-> processing_tasks.status,
          files_processed |-> processing_tasks.processed_files,
          total_files |-> processing_tasks.total_files,
          errors |-> processing_tasks.errors]

MgrNext ==
    \/ connect
    \/ disconnect
    \/ \E n \in 1..MaxFiles : process_documents_batch(n)
    \/ \E outcome \in {"ok", "fail"} : update_progress(outcome)
    \/ complete_processing
    \/ WorkerBroadcastDone
    \/ CompleteCleanup
    \/ cancel_processing
    \/ CancelCleanup
    \/ route_cancel_processing

(***************************************************************************)
(* MessageBus of app/core/agents/message_bus.py ("the core bus"), which    *)
(* puts messages straight on the message_queue of the receiving agent      *)
(* object.  Its operations carry the prefix core_ here.  start() and       *)
(* stop(), which run and stop the agents' own loops, are not part of the   *)
(* model.                                                                  *)
(***************************************************************************)
max_history == 1000

\* MessageBus.__init__, lines 16-21, and BaseAgent.__init__, base.py line 63
CoreBusInit ==
    /\ core_agents = [a \in AgentIds |-> None]
    /\ core_subscriptions = [ty \in MessageType |-> {}]
    /\ core_queues = [o \in AgentObjs |-> <<>>]
    /\ message_history = <<>>
    /\ core_last = [op |-> None, outcome |-> None]

\* Message.__init__, base.py lines 15-29: the n-th message made
Message(n, msg_type, sender, recipient) ==
    [id |-> "uuid" \o ToString(n), type |-> msg_type, sender |-> sender,
     recipient |-> recipient]

\* lines 23-26
core_register_agent(o) ==
    /\ core_agents' = [core_agents EXCEPT ![agent_id(o)] = o]
    /\ core_last' = [op |-> "register_agent", outcome |-> "returned"]
    /\ UNCHANGED <<core_subscriptions, core_queues, message_history>>
    /\ UNCHANGED <<busVars, batchVars, mgrVars, readVars, agentVars, procVars>>

\* lines 28-35
core_unregister_agent(a) ==
    /\ IF core_agents[a] = None
       THEN UNCHANGED <<core_agents, core_subscriptions>>
       ELSE /\ core_agents' = [core_agents EXCEPT ![a] = None]
            /\ core_subscriptions' = [ty \in MessageType |->
                                          core_subscriptions[ty] \ {a}]
    /\ core_last' = [op |-> "unregister_agent", outcome |-> "returned"]
    /\ UNCHANGED <<core_queues, message_history>>
    /\ UNCHANGED <<busVars, batchVars, mgrVars, readVars, agentVars, procVars>>

\* lines 37-41
core_subscribe(a, message_type) ==
    /\ IF core_agents[a] = None
       THEN UNCHANGED core_subscriptions
       ELSE core_subscriptions' = [core_subscriptions EXCEPT ![message_type] = @ \cup {a}]
    /\ core_last' = [op |-> "subscribe", outcome |-> "returned"]
    /\ UNCHANGED <<core_agents, core_queues, message_history>>
    /\ UNCHANGED <<busVars, batchVars, mgrVars, readVars, agentVars, procVars>>

\* lines 43-47
core_unsubscribe(a, message_type) ==
    /\ core_subscriptions' = [core_subscriptions EXCEPT ![message_type] = @ \ {a}]
    /\ core_last' = [op |-> "unsubscribe", outcome |-> "returned"]
    /\ UNCHANGED <<core_agents, core_queues, message_history>>
    /\ UNCHANGED <<busVars, batchVars, mgrVars, readVars, agentVars, procVars>>

\* broadcast, lines 55-62: the queues after the message has been put on the
\* queue of every subscriber that is registered, the sender left out
Broadcast(message, exclude_sender) ==
    LET recipients == IF exclude_sender
                      THEN core_subscriptions[message.type] \ {message.sender}
                      ELSE core_subscriptions[message.type]
    IN  [o \in AgentObjs |->
            IF \E r \in recipients : core_agents[r] = o
            THEN Append(core_queues[o], message)
            ELSE core_queues[o]]

\* lines 93-96
Remember(message) ==
    LET history == Append(message_history, message)
    IN  IF Len(history) > max_history THEN Tail(history) ELSE history

\* send_message, lines 64-98; recipient None stands for a broadcast
core_send_message(sender_id, msg_type, recipient_id) ==
    LET message == Message(Len(message_history) + 1, msg_type, sender_id, recipient_id)
    IN  /\ Len(message_history) < MaxSends
        /\ IF core_agents[sender_id] = None
              \/ (recipient_id # None /\ core_agents[recipient_id] = None)
           THEN /\ core_last' = [op |-> "send_message", outcome |-> "False"]
                /\ UNCHANGED <<core_queues, message_history>>
           ELSE /\ core_queues' =
                       IF recipient_id # None
                       THEN [core_queues EXCEPT ![core_agents[recipient_id]] =
                                                    Append(@, message)]
                       ELSE Broadcast(message, TRUE)
                /\ message_history' = Remember(message)
                /\ core_last' = [op |-> "send_message", outcome |-> "True"]
        /\ UNCHANGED <<core_agents, core_subscriptions>>
        /\ UNCHANGED <<busVars, batchVars, mgrVars, readVars, agentVars, procVars>>

CoreBusNext ==
    \/ \E o \in AgentObjs : core_register_agent(o)
    \/ \E a \in AgentIds : core_unregister_agent(a)
    \/ \E a \in AgentIds, ty \in MessageType : core_subscribe(a, ty)
    \/ \E a \in AgentIds, ty \in MessageType : core_unsubscribe(a, ty)
    \/ \E sender \in AgentIds, r \in {"a1", None} :
           core_send_message(sender, "task", r)

(***************************************************************************)
(* BaseAgent of app/agents/base.py: the handler table of one agent and     *)
(* handle_message.  The handler is called before handle_message suspends,  *)
(* so the calls of the handlers are made in the order of the               *)
(* handle_message calls.                                                   *)
(***************************************************************************)
Handlers == {"h1", "h2"}

\* BaseAgent.__init__, line 83
AgentInit ==
    /\ message_handlers = [ty \in MessageType |-> None]
    /\ invocations = <<>>
    /\ returns = <<>>

\* register_message_handler, lines 102-104
register_message_handler(message_type, handler) ==
    /\ message_handlers' = [message_handlers EXCEPT ![message_type] = handler]
    /\ UNCHANGED <<invocations, returns>>
    /\ UNCHANGED <<busVars, batchVars, mgrVars, coreVars, readVars, procVars>>

\* a lookup that does not look at the type of the message
LookupFirst(handlers, message) == handlers["task"]

\* line 88
Lookup(handlers, message) == handlers[message.message_type]

\* what handler h returns for a message
HandlerResult(h, message) == "result of " \o h

\* handle_message, lines 86-91
handle_message(message) ==
    LET handler == Lookup(message_handlers, message) IN
    /\ Len(returns) < MaxCalls
    /\ IF handler # None
       THEN /\ invocations' = Append(invocations,
                                     [handler |-> handler, message |-> message])
            /\ returns' = Append(returns,
                   [message |-> message, returned |-> HandlerResult(handler, message)])
       ELSE /\ returns' = Append(returns, [message |-> message, returned |-> None])
            /\ UNCHANGED invocations
    /\ UNCHANGED message_handlers
    /\ UNCHANGED <<busVars, batchVars, mgrVars, coreVars, readVars, procVars>>

AgentNext ==
    \/ \E ty \in MessageType, h \in Handlers : register_message_handler(ty, h)
    \/ \E ty \in MessageType, p \in {LOW, HIGH} :
           handle_message(AgentMessage("uuid" \o ToString(Len(returns) + 1), ty,
                                       "a2", "a1", "c1", p))

(***************************************************************************)
(* The agent DocumentProcessor of app/agents/document_processor.py: the    *)
(* methods that build and send its notifications, each called on its own.  *)
(* A notification is an AgentMessage handed to BaseAgent.send_message.     *)
(***************************************************************************)
ProcessIds == {"p1", "p2"}

\* the members of MessageType, base.py lines 22-27
MessageTypeMembers == {"TASK", "RESPONSE", "ERROR", "STATUS", "QUERY", "RESULT"}

\* the fields of AgentMessage without a default, base.py lines 47-51
RequiredFields == {"message_id", "message_type", "sender", "receiver", "content"}

\* the keyword arguments of the AgentMessage(...) calls, lines 143-153,
\* 259-270 and 275-282
GivenFields == {"message_type", "sender", "receiver", "content", "priority",
                "parent_message_id"}

ProcInit ==
    /\ active_processes = {}
    /\ emissions = <<>>

\* how AgentMessage(message_type=MessageType.<member>, ...) ends: the
\* arguments are evaluated first, then pydantic validates the fields
Construct(member) ==
    IF member \notin MessageTypeMembers THEN "AttributeError"
    ELSE IF ~(RequiredFields \subseteq GivenFields) THEN "ValidationError"
    ELSE "constructed"

\* BaseAgent.send_message, base.py lines 108-111: the body is `pass`
AgentSend(queue, message, timestamp) == queue

\* one notification call made with the queue of the bus as it is given: the
\* message is constructed and, if that worked, handed to send_message
Attempt(kind, member, requester, priority, queue) ==
    LET built == Construct(member)
        message == AgentMessage("", member, "a1", requester, kind, priority)
        after == IF built = "constructed" THEN AgentSend(queue, message, now)
                 ELSE queue
    IN  [queue |-> after,
         entry |-> [kind |-> kind, requester |-> requester, priority |-> priority,
                    outcome |-> IF built = "constructed" THEN "returned" ELSE built,
                    queued |-> after # queue]]

\* _send_error_response, lines 273-283
SendErrorResponse(requester, queue) == Attempt("error", "ERROR", requester, HIGH, queue)

\* a notification call of a try block whose except clause answers an
\* exception with _send_error_response (lines 100-102, 156-158, 209-212)
TryEmit(first) ==
    IF first.entry.outcome = "returned"
    THEN /\ message_queue' = first.queue
         /\ emissions' = Append(emissions, first.entry)
    ELSE LET second == SendErrorResponse(first.entry.requester, first.queue)
         IN  /\ message_queue' = second.queue
             /\ emissions' = emissions \o <<first.entry, second.entry>>

\* _update_status, lines 256-271, called in the try block of
\* _process_document for a process the agent holds (lines 167-189)
update_status(process_id, requester) ==
    /\ Len(emissions) < MaxCalls
    /\ process_id \in active_processes
    /\ TryEmit(Attempt("progress", "PROCESS_STATUS", requester, LOW, message_queue))
    /\ UNCHANGED active_processes
    /\ UNCHANGED <<registered_agents, subscriptions, running, processing_task,
                   tasks, stopWaiting, now, nsent, enqueued, stopSeq, delivered,
                   unregSince, lastOutcome, subscribeOutcome, unregAtSend>>
    /\ UNCHANGED <<batchVars, mgrVars, coreVars, readVars, agentVars>>

\* _handle_process_cancel, lines 132-158: an unknown process id is answered
\* with an error response; a known one is deleted and answered with the
\* 'cancelled' notification
handle_process_cancel(process_id, requester) ==
    /\ Len(emissions) < MaxCalls
    /\ IF process_id \notin active_processes
       THEN /\ TryEmit(SendErrorResponse(requester, message_queue))
            /\ UNCHANGED active_processes
       ELSE /\ active_processes' = active_processes \ {process_id}
            /\ TryEmit(Attempt("cancelled", "PROCESS_STATUS", requester, HIGH,
                               message_queue))
    /\ UNCHANGED <<registered_agents, subscriptions, running, processing_task,
                   tasks, stopWaiting, now, nsent, enqueued, stopSeq, delivered,
                   unregSince, lastOutcome, subscribeOutcome, unregAtSend>>
    /\ UNCHANGED <<batchVars, mgrVars, coreVars, readVars, agentVars>>

\* _handle_document_process, lines 68-80: the context of a new process is
\* stored
handle_document_process(process_id) ==
    /\ process_id \notin active_processes
    /\ active_processes' = active_processes \cup {process_id}
    /\ UNCHANGED emissions
    /\ UNCHANGED <<busVars, batchVars, mgrVars, coreVars, readVars, agentVars>>

NotifyNext ==
    \/ \E process_id \in ProcessIds : handle_document_process(process_id)
    \/ \E process_id \in ProcessIds, r \in AgentIds : update_status(process_id, r)
    \/ \E process_id \in ProcessIds, r \in AgentIds :
           handle_process_cancel(process_id, r)

vars == <<busVars, batchVars, mgrVars, coreVars, readVars, agentVars, procVars>>

\* the bus, beside an idle processor
InitBus ==
    BusInit /\ BatchInitWith(CoreProcessor, 1) /\ MgrInit /\ CoreBusInit /\ ReadInit
    /\ AgentInit
    /\ ProcInit

SpecBus == InitBus /\ [][BusNext]_vars

\* the notification methods of the agent, beside an idle bus
SpecNotify == InitBus /\ [][NotifyNext]_vars

\* one batch on a processor of either class, beside an idle bus
InitBatch ==
    /\ \E p \in {CoreProcessor, DocProcessor}, k \in 1..MaxWorkers : BatchInitWith(p, k)
    /\ BusInit
    /\ MgrInit
    /\ CoreBusInit
    /\ ReadInit
    /\ AgentInit
    /\ ProcInit

SpecBatch == InitBatch /\ [][BatchNext]_vars

\* the event loop runs every ready task of the batch, and every extraction
\* call and every callback returns or raises
FairSpecBatch ==
    /\ SpecBatch
    /\ \A f \in Files : WF_vars(CoreStartFile(f))
    /\ \A f \in Files : WF_vars(\E outcome \in {"ok", "fail"} : CoreExtract(f, outcome))
    /\ \A f \in Files : WF_vars(\E result \in {"return", "raise"} : CoreCallback(f, result))
    /\ WF_vars(CoreGatherReturns)
    /\ \A f \in Files : WF_vars(CoreGatherRaises(f))
    /\ \A f \in Files : WF_vars(DocStartFile(f))
    /\ \A f \in Files : WF_vars(\E outcome \in {"ok", "fail"} : DocExtract(f, outcome))
    /\ WF_vars(DocCount)
    /\ WF_vars(\E result \in {"return", "raise"} : DocCallback(result))

\* one batch of CoreProcessor and the readers of its status
InitStatus ==
    /\ \E k \in 1..MaxWorkers : BatchInitWith(CoreProcessor, k)
    /\ BusInit
    /\ MgrInit
    /\ CoreBusInit
    /\ ReadInit
    /\ AgentInit
    /\ ProcInit

SpecStatus == InitStatus /\ [][StatusNext]_vars

\* one agent and its handlers, beside everything else idle
SpecAgent == InitBus /\ [][AgentNext]_vars

\* the manager and its worker, beside an idle bus and an idle processor
InitManager ==
    MgrInit /\ BusInit /\ BatchInitWith(CoreProcessor, 1) /\ CoreBusInit /\ ReadInit
    /\ AgentInit
    /\ ProcInit

SpecManager == InitManager /\ [][MgrNext]_vars

\* the core bus, beside everything else idle
InitCoreBus ==
    CoreBusInit /\ BusInit /\ BatchInitWith(CoreProcessor, 1) /\ MgrInit /\ ReadInit
    /\ AgentInit
    /\ ProcInit

SpecCoreBus == InitCoreBus /\ [][CoreBusNext]_vars

SpecLife == InitBus /\ [][LifeNext]_vars

\* the registries and subscription tables of both buses, with one envelope
\* sent on the bus of app/agents
RegistryNext ==
    \/ \E o \in AgentObjs : register_agent(o)
    \/ \E o \in AgentObjs : unregister_agent(o)
    \/ \E a \in AgentIds, tys \in SUBSET MessageType : subscribe(a, tys)
    \/ \E a \in AgentIds, tys \in SUBSET MessageType : unsubscribe(a, tys)
    \/ \E r \in AgentIds :
           /\ nsent = 0
           /\ send_message(AgentMessage("m1", "task", "a2", r, "c1", MEDIUM), now)
    \/ \E o \in AgentObjs : core_register_agent(o)
    \/ \E a \in AgentIds : core_unregister_agent(a)
    \/ \E a \in AgentIds, ty \in MessageType : core_subscribe(a, ty)
    \/ \E a \in AgentIds, ty \in MessageType : core_unsubscribe(a, ty)

SpecRegistry == InitBus /\ [][RegistryNext]_vars

\* two messages with ids of their own, each handed to send_message once
OnceMessages ==
    {AgentMessage("m1", "task", "a1", "a2", "c1", MEDIUM),
     AgentMessage("m1-a1", "status", "a2", "a1", "c2", HIGH)}
Unsent(message) ==
    /\ message.message_id \notin unregAtSend
    /\ \A i \in DOMAIN enqueued : enqueued[i].message_id # message.message_id

\* the started bus with agents that come and go, and callers that send each
\* of their messages once
SendOnceNext ==
    \/ start
    \/ \E o \in {"o1", "o2"} : register_agent(o)
    \/ \E o \in {"o1", "o2"} : unregister_agent(o)
    \/ \E message \in OnceMessages, ts \in Clock :
           Unsent(message) /\ send_message(message, ts)
    \/ \E t \in TaskIds : LoopCheck(t)
    \/ \E t \in TaskIds : LoopGet(t)
    \/ \E t \in TaskIds, outcome \in {"return", "raise"} : HandlerDone(t, outcome)

SpecSendOnce == InitBus /\ [][SendOnceNext]_vars

\* the bus with subscriptions and broadcasts, started and never stopped; the
\* callers subscribe registered agents and send to registered receivers
PubSubNext ==
    \/ start
    \/ \E o \in {"o1", "o2"} : register_agent(o)
    \/ \E o \in {"o1", "o2"} : unregister_agent(o)
    \/ \E a \in AgentIds, ty \in MessageType :
           registered_agents[a] # None /\ subscribe(a, {ty})
    \/ \E a \in AgentIds, ty \in MessageType : unsubscribe(a, {ty})
    \/ \E id \in MessageIds \ {""} :
           /\ registered_agents["a1"] # None
           /\ send_message(AgentMessage(id, "task", "a2", "a1", "c1", MEDIUM), now)
    \/ \E ty \in MessageType :
           \E order \in Orders(subscriptions[ty]) :
               broadcast_message(AgentMessage("m1", ty, "a1", "broadcast", "c2", HIGH),
                                 order, [k \in 1..Len(order) |-> now])
    \/ \E t \in TaskIds : LoopCheck(t)
    \/ \E t \in TaskIds : LoopGet(t)
    \/ \E t \in TaskIds : HandlerDone(t, "return")

SpecPubSub == InitBus /\ [][PubSubNext]_vars

\* the event loop runs every ready task, handlers terminate, and a stop()
\* call whose awaited task has ended resumes
FairSpecLife ==
    /\ SpecLife
    /\ \A t \in TaskIds : WF_vars(LoopCheck(t))
    /\ \A t \in TaskIds : WF_vars(LoopGet(t))
    /\ \A t \in TaskIds : WF_vars(HandlerDone(t, "return"))
    /\ \A t \in TaskIds : WF_vars(stopReturn(t))

\* the event loop runs every ready task, and handlers terminate
FairSpecBus ==
    /\ SpecBus
    /\ \A t \in TaskIds : WF_vars(LoopCheck(t))
    /\ \A t \in TaskIds : WF_vars(LoopGet(t))
    /\ \A t \in TaskIds : WF_vars(\E o \in {"return", "raise"} : HandlerDone(t, o))

\* the event loop runs every ready task, and handlers terminate; nothing
\* is assumed of the callers of the bus
FairSpecFlow ==
    /\ InitBus /\ [][FlowNext]_vars
    /\ \A t \in TaskIds : WF_vars(LoopCheck(t))
    /\ \A t \in TaskIds : WF_vars(LoopGet(t))
    /\ \A t \in TaskIds : WF_vars(HandlerDone(t, "return"))

(***************************************************************************)
(* Properties of the bus.                                                  *)
(***************************************************************************)
Queued == {message_queue[i] : i \in DOMAIN message_queue}
QueuedSeqs == {x.seq : x \in Queued}
\* a step in which the dispatch loop takes the envelope x out of the queue
Pops(x) == x \in Queued /\ x.seq \notin {message_queue'[i].seq : i \in DOMAIN message_queue'}
\* a step in which task t starts a handler invocation
StartsHandler(t) == tasks[t].pc # "handle" /\ tasks'[t].pc = "handle"

\* C1: every envelope the dispatch loop takes out of the queue has the maximal
\* priority among the envelopes queued at that moment, so of two envelopes
\* queued together the one of higher priority is dispatched first.
C1_PriorityOrdering ==
    [][\A x \in Queued : Pops(x) => \A y \in Queued : y.priority <= x.priority]_vars

\* C1 witness: an envelope is being handled while an envelope of lower
\* priority that was enqueued before it is still queued.
C1_Witness ==
    \E t \in TaskIds, y \in Queued :
        /\ tasks[t].pc = "handle"
        /\ y.seq < tasks[t].msg.seq
        /\ y.priority < tasks[t].msg.priority

\* C2: among envelopes of equal priority the dispatch loop takes them out of
\* the queue in the order send_message enqueued them.
C2_FifoTieBreak ==
    [][\A x \in Queued : Pops(x) =>
          \A y \in Queued : y.priority = x.priority => x.seq <= y.seq]_vars

\* C6: a handler invocation is made on the agent registered under the
\* envelope's receiver id, an agent that carries that id, and the envelope
\* has not been delivered before and is no longer queued.
C6_ExactReceiverAtMostOnce ==
    [][\A t \in TaskIds : StartsHandler(t) =>
          LET m == tasks'[t].msg IN
          /\ tasks'[t].target = registered_agents[m.receiver]
          /\ tasks'[t].target # None
          /\ agent_id(tasks'[t].target) = m.receiver
          /\ m.seq \notin delivered
          /\ m.seq \notin {message_queue'[i].seq : i \in DOMAIN message_queue'}
          /\ \A u \in TaskIds \ {t} : tasks'[u].msg.seq # m.seq]_vars

\* C6 witness: an envelope for a2 is in its handler while an agent with the
\* other id is registered too.
C6_Witness ==
    \E t \in TaskIds :
        /\ tasks[t].pc = "handle"
        /\ tasks[t].msg.receiver = "a2"
        /\ tasks[t].target = "o2"
        /\ registered_agents["a1"] # None

C8_UnregisteredNeverDelivered ==
    [][\A t \in TaskIds : StartsHandler(t) => tasks'[t].msg.seq \notin unregSince]_vars

\* C8 amended: an envelope whose receiver id is not registered when the
\* dispatch loop takes it out of the queue is dropped: it is handed to no
\* handler, it is not queued again, and the loop is back at its while test.
C8_AbsentAtDispatchDropped ==
    [][\A x \in Queued : Pops(x) /\ registered_agents[x.receiver] = None =>
          /\ x.seq \notin delivered'
          /\ \A t \in TaskIds : tasks'[t].pc # "handle" \/ tasks'[t].msg.seq # x.seq
          /\ \A t \in TaskIds : tasks'[t] # tasks[t] => tasks'[t].pc = "check"]_vars

\* C8 witness: an accepted envelope is neither queued nor delivered (it was
\* dropped), and a later envelope is in its handler.
C8_Witness ==
    /\ \E s \in 1..nsent : s \notin QueuedSeqs /\ s \notin delivered
    /\ \E t \in TaskIds : tasks[t].pc = "handle"

(***************************************************************************)
(* Properties of the batch processors.                                     *)
(***************************************************************************)
Total == IF processor = CoreProcessor THEN batch_status.total_files
         ELSE local.total_files
Processed == IF processor = CoreProcessor THEN batch_status.processed_files
             ELSE local.processed
Succeeded == IF processor = CoreProcessor THEN batch_status.success_count
             ELSE local.success_count
Failed == IF processor = CoreProcessor THEN batch_status.error_count
          ELSE local.error_count
Terminal == batch_status.status \in {"completed", "error", "cancelled"}
\* every task of the batch has ended
AllEnded == \A f \in Batch : worker[f].pc \in {"done", "raised"}
ExtractionFailures == {f \in Batch : worker[f].outcome = "fail"}

\* C3: the exception of one file never comes out of gather into
\* process_batch and out of the call, the batch is never classified 'error'
\* for it, and errors holds nothing but the entries of the files.
C3_FailureIsolation ==
    /\ escaped = {}
    /\ batch_status.status # "error"
    /\ \A i \in DOMAIN batch_status.errors : batch_status.errors[i] \in Files

\* C4: processed equals succeeded plus failed and never exceeds total.
C4_CounterInvariant ==
    /\ Processed = Succeeded + Failed
    /\ Processed <= Total

\* C5: the number of tasks of a batch that hold a permit never exceeds the
\* concurrency limit of the processor.
C5_BoundedConcurrency ==
    /\ Cardinality(Holders) <= max_workers
    /\ semaphore >= 0

\* C5 witness: every permit is taken, one file has ended and another waits.
C5_Witness ==
    /\ Cardinality(Holders) = max_workers
    /\ \E f \in Files : worker[f].pc = "waiting"
    /\ \E f \in Files : worker[f].pc \in {"done", "raised"}

\* C9: a batch that is terminal without a cancellation has processed every
\* file, each counted once as succeeded or failed, and no task of it is
\* still on its way.
C9_Conservation ==
    (processor = CoreProcessor /\ Terminal /\ ~cancelRequested) =>
        /\ batch_status.processed_files = batch_status.total_files
        /\ batch_status.success_count + batch_status.error_count
               = batch_status.total_files
        /\ AllEnded

\* C10: once a batch of N files of which F failed in extraction has ended,
\* with no cancellation and no failing callback, succeeded is N - F, failed
\* is F, errors has F entries and the state is 'completed'.
C10_ItemFailuresKeepCompleted ==
    (/\ processor = CoreProcessor
     /\ coord = "raised"
     /\ AllEnded
     /\ ~cancelRequested
     /\ ~cbRaised) =>
        /\ batch_status.success_count
               = batch_status.total_files - Cardinality(ExtractionFailures)
        /\ batch_status.error_count = Cardinality(ExtractionFailures)
        /\ Len(batch_status.errors) = Cardinality(ExtractionFailures)
        /\ batch_status.status = "completed"

(***************************************************************************)
(* Properties of cancellation and of the batch state.                      *)
(***************************************************************************)
TerminalStatus == {"completed", "error", "failed", "cancelled"}

\* C11: a cancel call returns true exactly when it finds the batch in
\* 'processing'; a call that finds the batch absent or terminal changes
\* nothing; a call that finds it in 'processing' makes it 'cancelled'.
C11_CancelContract ==
    /\ [](cancel_result.pre # None =>
              (cancel_result.result <=> cancel_result.pre = "processing"))
    /\ [][cancel_result' # cancel_result /\ processing_tasks.status # "processing"
              => processing_tasks' = processing_tasks]_vars
    /\ [][cancelRequested' # cancelRequested =>
              batch_status.status = "processing" /\ batch_status'.status = "cancelled"]_vars
    /\ [][batch_status.status \in TerminalStatus /\ batch_status'.status = "cancelled"
              => batch_status' = batch_status]_vars

\* C12: after cancel_batch has returned True no file of the batch that was
\* not inside its extraction call enters it.
C12_CancelSkipsPending ==
    [][cancelRequested =>
          \A f \in Files : worker[f].pc # "extract" => worker'[f].pc # "extract"]_vars

\* C13: the status of a batch changes only from absent or 'pending' to
\* 'processing' and from there to 'completed', 'error' or 'cancelled' (an
\* empty batch is 'completed' at once), and never leaves a terminal status.
C13_TerminalAbsorbing ==
    [][batch_status'.status # batch_status.status =>
          \/ batch_status.status \in {"absent", "pending"}
                 /\ batch_status'.status \in {"pending", "processing", "completed"}
          \/ batch_status.status = "processing"
                 /\ batch_status'.status \in {"completed", "error", "cancelled"}]_vars

(***************************************************************************)
(* Properties of the lifecycle of the bus.                                 *)
(***************************************************************************)
\* the dispatch loops that exist and have not ended
LiveLoops == {t \in TaskIds : tasks[t].pc \notin {"none", "exited"}}

\* C14: every stop() call that waits for the dispatch task eventually
\* returns, with that task ended.
C14_StopTerminates ==
    \A t \in TaskIds :
        (t \in stopWaiting) ~> (t \notin stopWaiting /\ tasks[t].pc = "exited")

\* C15: an envelope that was queued when stop() marked the bus not running
\* is never handed to a handler afterwards.
C15_QueuedAtStopDiscarded ==
    [][\A t \in TaskIds : StartsHandler(t) => tasks'[t].msg.seq > stopSeq]_vars

\* C16: at most one dispatch loop exists at a time, and a loop is created
\* only by a start() that finds the bus not running.
C16_SingleDispatchLoop ==
    /\ [](Cardinality(LiveLoops) <= 1)
    /\ [][\A t \in TaskIds : t \notin LiveLoops /\ tasks'[t].pc # tasks[t].pc =>
              ~running /\ running' /\ processing_task' = t]_vars

\* C17: no two handler invocations made by the bus are in progress for the
\* same receiver at the same time.
C17_SerializedDelivery ==
    \A t, u \in TaskIds :
        (t # u /\ tasks[t].pc = "handle" /\ tasks[u].pc = "handle")
            => tasks[t].msg.receiver # tasks[u].msg.receiver

(***************************************************************************)
(* Properties of broadcasts and of message ids.                            *)
(***************************************************************************)
\* C18: a broadcast of a message enqueues one copy for each subscriber of
\* the message's type other than the sender and for no one else, each copy
\* addressed to its subscriber with the type, sender, content and priority
\* of the message.
C18_BroadcastToSubscribers ==
    [][(nsent' > nsent /\ enqueued'[nsent + 1].broadcast) =>
          LET message == enqueued'[nsent + 1].origin
              copies == {x \in {message_queue'[i] : i \in DOMAIN message_queue'} :
                             x.seq > nsent}
              expected == subscriptions[message.message_type] \ {message.sender}
          IN  /\ {x.receiver : x \in copies} = expected
              /\ Cardinality(copies) = Cardinality(expected)
              /\ \A x \in copies :
                     /\ x.message_type = message.message_type
                     /\ x.sender = message.sender
                     /\ x.content = message.content
                     /\ x.priority = message.priority]_vars

\* the callers give different ids to different messages: two envelopes made
\* from messages of the same id are copies made by one broadcast of one message
CallersUseDistinctIds ==
    \A i, j \in DOMAIN enqueued :
        (i # j /\ enqueued[i].origin.message_id = enqueued[j].origin.message_id) =>
            /\ enqueued[i].broadcast /\ enqueued[j].broadcast
            /\ enqueued[i].origin = enqueued[j].origin
            /\ enqueued[i].message_id # enqueued[j].message_id

\* C19: as long as the callers give different ids to different messages, no
\* two envelopes ever put on the queue have the same message id.
C19_UniqueIds ==
    CallersUseDistinctIds =>
        \A i, j \in DOMAIN enqueued :
            i # j => enqueued[i].message_id # enqueued[j].message_id

(***************************************************************************)
(* Properties of registration.                                             *)
(***************************************************************************)
\* C20: an agent object stored under an id is never replaced by a
\* registration: while the id stays registered the same object stays stored.
C20_DuplicateRegistrationRejected ==
    /\ [][\A a \in AgentIds :
              (registered_agents[a] # None /\ registered_agents'[a] # None)
                  => registered_agents'[a] = registered_agents[a]]_vars
    /\ [][\A a \in AgentIds :
              (core_agents[a] # None /\ core_agents'[a] # None)
                  => core_agents'[a] = core_agents[a]]_vars

(***************************************************************************)
(* Properties of the registry and of the subscription table.               *)
(***************************************************************************)
\* C21: an unregister call for an id that is not registered changes neither
\* the registry nor the subscriptions; a call for a registered id removes the
\* id from the registry and from the subscriber set of every type, and
\* leaves the registration and the subscriptions of every other id as they
\* were.  This holds on both buses.
C21_UnregisterFrame ==
    /\ [][\A o \in AgentObjs : unregister_agent(o) =>
              LET a == agent_id(o) IN
              IF registered_agents[a] = None
              THEN UNCHANGED <<registered_agents, subscriptions>>
              ELSE /\ registered_agents'[a] = None
                   /\ \A ty \in MessageType : a \notin subscriptions'[ty]
                   /\ \A b \in AgentIds \ {a} :
                          /\ registered_agents'[b] = registered_agents[b]
                          /\ \A ty \in MessageType :
                                 b \in subscriptions'[ty] <=> b \in subscriptions[ty]]_vars
    /\ [][\A a \in AgentIds : core_unregister_agent(a) =>
              IF core_agents[a] = None
              THEN UNCHANGED <<core_agents, core_subscriptions>>
              ELSE /\ core_agents'[a] = None
                   /\ \A ty \in MessageType : a \notin core_subscriptions'[ty]
                   /\ \A b \in AgentIds \ {a} :
                          /\ core_agents'[b] = core_agents[b]
                          /\ \A ty \in MessageType :
                                 b \in core_subscriptions'[ty]
                                     <=> b \in core_subscriptions[ty]]_vars

\* C21 witness: on the bus of app/agents a1 was unregistered with an envelope
\* queued for it, on the core bus the latest call unregistered a1, and on
\* both buses a2 is still registered and subscribed.
C21_Witness ==
    /\ unregSince # {}
    /\ registered_agents["a1"] = None
    /\ registered_agents["a2"] # None
    /\ "a2" \in subscriptions["status"]
    /\ \A ty \in MessageType : "a1" \notin subscriptions[ty]
    /\ core_last.op = "unregister_agent"
    /\ core_agents["a1"] = None
    /\ core_agents["a2"] # None
    /\ "a2" \in core_subscriptions["status"]

\* C22: a subscribe call for an id that is not registered ends with an error
\* and leaves the subscription table as it was; an unsubscribe call returns
\* for every id, and takes the id out of the subscriber sets of the listed
\* types and changes nothing else.  This is stated for both buses.
C22_SubscribeContract ==
    /\ [][\A a \in AgentIds, tys \in SUBSET MessageType :
              subscribe(a, tys) /\ registered_agents[a] = None =>
                  /\ subscribeOutcome' = "ValueError"
                  /\ subscriptions' = subscriptions]_vars
    /\ [][\A a \in AgentIds, tys \in SUBSET MessageType :
              unsubscribe(a, tys) =>
                  /\ subscribeOutcome' = "returned"
                  /\ registered_agents' = registered_agents
                  /\ \A ty \in MessageType :
                         subscriptions'[ty] =
                             IF ty \in tys THEN subscriptions[ty] \ {a}
                             ELSE subscriptions[ty]]_vars
    /\ [][\A a \in AgentIds, ty \in MessageType :
              core_subscribe(a, ty) /\ core_agents[a] = None =>
                  /\ core_last'.outcome \notin {"returned", "True", "False"}
                  /\ core_subscriptions' = core_subscriptions]_vars
    /\ [][\A a \in AgentIds, ty \in MessageType :
              core_unsubscribe(a, ty) =>
                  /\ core_last'.outcome = "returned"
                  /\ core_agents' = core_agents
                  /\ \A ty2 \in MessageType :
                         core_subscriptions'[ty2] =
                             IF ty2 = ty THEN core_subscriptions[ty2] \ {a}
                             ELSE core_subscriptions[ty2]]_vars

(***************************************************************************)
(* Properties of send_message.                                             *)
(***************************************************************************)
\* C23: a send_message call for a receiver that is not registered returns
\* with the queue, the registry, the subscriptions and the dispatch tasks as
\* they were, and the message it was given is never queued and never handed
\* to a handler, whatever is registered later.
C23_RefusedSendNeverDelivered ==
    /\ [][\A message \in OnceMessages, ts \in Clock :
              (send_message(message, ts) /\ registered_agents[message.receiver] = None)
                  => UNCHANGED <<message_queue, registered_agents, subscriptions,
                                 tasks, nsent, enqueued, delivered>>]_vars
    /\ [](\A id \in unregAtSend :
              /\ \A i \in DOMAIN message_queue : message_queue[i].message_id # id
              /\ \A i \in DOMAIN enqueued : enqueued[i].message_id # id
              /\ \A t \in TaskIds : tasks[t].msg.message_id # id)

\* C23 witness: m1 was sent while its receiver a2 was not registered; a2 is
\* registered now, the other message has been delivered, and the dispatch
\* loop waits at an empty queue.
C23_Witness ==
    /\ "m1" \in unregAtSend
    /\ registered_agents["a2"] # None
    /\ delivered # {}
    /\ message_queue = <<>>
    /\ \E t \in TaskIds : tasks[t].pc = "get"

(***************************************************************************)
(* Properties of the empty batch and of the status reads.                  *)
(***************************************************************************)
\* C24: a batch started with no files has total 0 and processed, succeeded
\* and failed 0; it is 'completed' (process_batch of app/core/document has
\* returned) as soon as it exists; no task of it exists and no permit of the
\* semaphore is taken.
C24_EmptyBatch ==
    (coord # "idle" /\ Total = 0) =>
        /\ Processed = 0 /\ Succeeded = 0 /\ Failed = 0
        /\ IF processor = CoreProcessor
           THEN batch_status.status = "completed" /\ batch_status.errors = <<>>
           ELSE coord = "returned"
        /\ Batch = {}
        /\ Holders = {}
        /\ semaphore = max_workers

\* C25: what get_batch_status handed to a caller keeps the content it had at
\* the call, whatever the tasks of the batch, cancel_batch and process_batch
\* do afterwards, and a caller that writes to it leaves the record of the
\* processor as it was.
C25_StatusIsSnapshot ==
    /\ [](snapshot # NoSnapshot => SnapshotView = snapshot.taken)
    /\ [][CallerWrites => batch_status' = batch_status]_vars

\* C26: all get_batch_status calls made while the batch is terminal return
\* the same content.
C26_TerminalReadsIdentical ==
    Cardinality(terminalReads) <= 1

\* C27: the call that makes the record of a batch 'completed' or 'cancelled'
\* leaves the record in place: a get_processing_status call made at the next
\* suspension point of that call finds the record with its final status.
C27_Retention ==
    /\ [][(complete_processing /\ processing_tasks.status # "absent") =>
              get_processing_status'.status = "completed"]_vars
    /\ [][(cancel_processing /\ processing_tasks.status # "absent") =>
              get_processing_status'.status = "cancelled"]_vars

\* C24 witness: process_batch has been called with no files.
C24_Witness ==
    /\ coord \in {"raised", "returned"}
    /\ Total = 0
    /\ Batch = {}

(***************************************************************************)
(* Properties of delivery under a sender that may go on for ever.          *)
(***************************************************************************)
\* the envelope a handler is started with is the queued envelope, as
\* send_message built it from the message, and is started with only once
HandedOnceUnchanged ==
    [][\A t \in TaskIds : StartsHandler(t) =>
          LET m == tasks'[t].msg IN
          /\ m \in Queued
          /\ m.seq \notin delivered
          /\ m.seq \notin {message_queue'[i].seq : i \in DOMAIN message_queue'}
          /\ \A u \in TaskIds \ {t} : tasks'[u].msg.seq # m.seq
          /\ tasks'[t].target = registered_agents[m.receiver]
          /\ m.message_id = "uuid" \o ToString(m.seq)
          /\ m.sender = "a1" /\ m.receiver = "a1" /\ m.content = "c1"]_vars

\* envelope n is queued beside an envelope that does not rank after it
Outranked(n) ==
    \E x, y \in Queued : x.seq = n /\ y.seq # n /\ ~ItemLt(x, y)

Extracted == {f \in Batch : worker[f].outcome \in {"ok", "fail"}}

\* C30: once every task of a batch has ended (and process_batch of
\* app/core/document has returned its counters), processed is the number of
\* files whose extraction returned or raised, succeeded the number of those
\* that returned and failed the number of those that raised.
C30_NoLostIncrements ==
    (/\ Batch # {}
     /\ AllEnded
     /\ processor = DocProcessor => coord = "returned") =>
        /\ Processed = Cardinality(Extracted)
        /\ Succeeded = Cardinality({f \in Batch : worker[f].outcome = "ok"})
        /\ Failed = Cardinality({f \in Batch : worker[f].outcome = "fail"})

(***************************************************************************)
(* Properties of the permits.                                              *)
(***************************************************************************)
\* C31: the free permits are the K permits less those of the tasks that
\* hold one; a task that stops holding a permit has ended, with its
\* extraction returned or raised or with a raised callback, and its permit
\* is free in the same step; and once every task of a batch has ended, also
\* one that failed or one of a cancelled batch, all K permits are free.
C31_PermitsReleased ==
    /\ [](semaphore = max_workers - Cardinality(Holders))
    /\ [](AllEnded => semaphore = max_workers)
    /\ [][\A f \in Files :
              (f \in Holders /\ f \notin Holders') =>
                  /\ worker'[f].pc \in {"done", "raised"}
                  /\ semaphore' = semaphore + 1]_vars

\* C31 witness: with one permit, the first file failed, the batch was
\* cancelled, the second file was extracted after that, and every task has
\* ended with the permit free.
C31_Witness ==
    /\ max_workers = 1
    /\ cancelRequested
    /\ worker[1].outcome = "fail"
    /\ worker[2].outcome = "ok"
    /\ Batch = {1, 2}
    /\ AllEnded
    /\ semaphore = 1

(***************************************************************************)
(* Properties of the end of a batch.                                       *)
(***************************************************************************)
\* the batch has reached a terminal state: its record is 'completed',
\* 'error' or 'cancelled', or, without a record, process_batch has ended
BatchTerminal ==
    IF processor = CoreProcessor THEN Terminal ELSE coord \in {"returned", "raised"}

\* C32: under fair scheduling every submitted batch reaches a terminal
\* state, and a batch that is terminal without a cancellation request has
\* the outcome, returned or raised, of the extraction of every file.
C32_BatchTermination ==
    /\ (coord # "idle") ~> BatchTerminal
    /\ []((BatchTerminal /\ coord # "idle" /\ ~cancelRequested) =>
             \A f \in Batch : worker[f].outcome \in {"ok", "fail"})

\* C33: under fair scheduling, a status record that has become 'completed',
\* 'error' or 'cancelled' is eventually removed from _batch_statuses, so
\* that get_batch_status finds no record for the batch.
C33_EventualPurge == Terminal ~> (batch_status = NoStatus)

(***************************************************************************)
(* Properties of the progress notifications of a batch.                    *)
(***************************************************************************)
\* a step in which a progress callback or the status callback is called;
\* it is handed the counters as they are after the step
Notifies ==
    \/ \E f \in Files : /\ worker'[f].pc \in {"cb_start", "cb_success", "cb_error"}
                        /\ worker'[f].pc # worker[f].pc
    \/ coord' = "callback" /\ coord # "callback"

\* C34: the processed count of a batch never decreases, so the successive
\* notifications carry non-decreasing processed values, and every
\* notification carries succeeded + failed = processed <= total.
C34_MonotonicProgress ==
    /\ [][Processed' >= Processed]_vars
    /\ [][Notifies => /\ Processed' = Succeeded' + Failed'
                      /\ Processed' <= Total']_vars

(***************************************************************************)
(* Properties of the errors list of a batch.                               *)
(***************************************************************************)
\* the positions of errors that hold the entry of file f
EntriesOf(f) ==
    {i \in DOMAIN batch_status.errors :
         batch_status.errors[i] \in Files /\ batch_status.errors[i] = f}

\* C35: errors has as many entries as failed counts, every entry is the
\* entry of a file whose extraction raised, and every such file has
\* exactly one entry.
C35_ErrorsMatchFailed ==
    processor = CoreProcessor =>
        /\ Len(batch_status.errors) = batch_status.error_count
        /\ \A i \in DOMAIN batch_status.errors :
               batch_status.errors[i] \in ExtractionFailures
        /\ \A f \in ExtractionFailures : Cardinality(EntriesOf(f)) = 1

(***************************************************************************)
(* Properties of the notifications of the agent DocumentProcessor.         *)
(***************************************************************************)
Urgent == {"error", "cancelled"}

\* C36: every notification the agent sets out to send is emitted, that is,
\* its call returns and its envelope is on the queue of the bus; an error
\* or cancellation notification carries a strictly higher priority than
\* every progress tick; and the dispatch loop never takes a progress tick
\* out of the queue while an error or cancellation notification is queued.
C36_UrgentOvertakesProgress ==
    /\ [](\A i \in DOMAIN emissions :
             emissions[i].outcome = "returned" /\ emissions[i].queued)
    /\ [](\A i, j \in DOMAIN emissions :
             (emissions[i].kind \in Urgent /\ emissions[j].kind = "progress") =>
                 emissions[i].priority > emissions[j].priority)
    /\ [][\A x \in Queued : (Pops(x) /\ x.content = "progress") =>
              \A y \in Queued : y.content \notin Urgent]_vars

(***************************************************************************)
(* Properties of a stopped bus.                                            *)
(***************************************************************************)
\* C37: the dispatch loop starts a handler invocation only while the bus
\* is running: once stop() has marked the bus not running no handler
\* invocation starts, also not for an envelope sent after that.
C37_NoDeliveryAfterStop ==
    [][\A t \in TaskIds : StartsHandler(t) => running]_vars

(***************************************************************************)
(* Properties of the subscription table.                                   *)
(***************************************************************************)
\* C38: on both buses every id in the subscriber set of any message type is
\* a registered id, after any sequence of register, unregister, subscribe
\* and unsubscribe calls, those that fail or change nothing included.
C38_SubscribersRegistered ==
    /\ \A ty \in MessageType : \A a \in subscriptions[ty] :
           registered_agents[a] # None
    /\ \A ty \in MessageType : \A a \in core_subscriptions[ty] :
           core_agents[a] # None

\* C38 witness: the latest subscribe call on the bus of app/agents was
\* refused, a2 alone is subscribed there and a1 is not registered; on the
\* core bus the latest call was a subscribe, a1 alone is subscribed and a2 is
\* not registered.
C38_Witness ==
    /\ subscribeOutcome = "ValueError"
    /\ subscriptions["task"] = {"a2"}
    /\ registered_agents["a1"] = None
    /\ core_last.op = "subscribe"
    /\ core_subscriptions["task"] = {"a1"}
    /\ core_agents["a2"] = None

(***************************************************************************)
(* Properties of the manager after a cancellation.                         *)
(***************************************************************************)
\* a step in which the worker starts a broadcast to the sockets of the batch
WorkerStartsBroadcast ==
    /\ mworker'.pc \in {"start_broadcast", "progress_broadcast", "complete_broadcast"}
    /\ mworker'.pc # mworker.pc

\* C39: once a cancel_processing call has returned True the batch has no
\* record, no update_progress or complete_processing call of the worker
\* makes or changes one, and the worker starts no broadcast for the batch.
C39_SilentAfterCancel ==
    /\ [](cancelReturned => processing_tasks = NoRecord)
    /\ [][cancelReturned =>
              /\ processing_tasks' = processing_tasks
              /\ ~WorkerStartsBroadcast]_vars

\* C39 witness: with a socket connected, a cancel_processing call that found
\* the batch in 'processing' has returned True, and since then the worker
\* has called update_progress at least once and complete_processing, and
\* has come to its end.
C39_Witness ==
    /\ cancelReturned
    /\ cancel_result = [pre |-> "processing", result |-> TRUE]
    /\ connected
    /\ mworker.pc = "done"
    /\ lateCalls >= 2

(***************************************************************************)
(* Properties of BaseAgent.handle_message.                                 *)
(***************************************************************************)
\* C29: a handle_message call for a message whose type has a registered
\* handler calls that handler, once and with that message, after the handler
\* calls of all earlier handle_message calls, and returns what the handler
\* returns; a call for a message whose type has no handler calls no handler
\* and returns None.
C29_HandlerDispatch ==
    [][Len(returns') = Len(returns) + 1 =>
          LET call == returns'[Len(returns')]
              handler == message_handlers[call.message.message_type]
          IN  IF handler = None
              THEN invocations' = invocations /\ call.returned = None
              ELSE /\ invocations' =
                          Append(invocations,
                                 [handler |-> handler, message |-> call.message])
                   /\ call.returned = HandlerResult(handler, call.message)]_vars

\* C29 witness: a message of low priority and then one of high priority were
\* handled by different handlers in that order, and a call for a type
\* without a handler returned None.
C29_Witness ==
    /\ Len(invocations) = 2
    /\ invocations[1].message.priority = LOW
    /\ invocations[2].message.priority = HIGH
    /\ invocations[1].handler # invocations[2].handler
    /\ \E i \in DOMAIN returns : returns[i].returned = None
====
